---------------------------- MODULE Spec2Model ----------------------------
(***************************************************************************)
(* A model of the GEO audit analyzer (src/src/analyzer.py, src/src/utils.py)*)
(*                                                                         *)
(* Text is modelled as a sequence of Unicode code points, so that          *)
(* lower-casing, whitespace collapsing, splitting and substring search are *)
(* computed as Python computes them.  The article HTML is modelled by the  *)
(* tree html.parser builds from it: a sequence of nodes in document order, *)
(* each naming its parent (0 = the document root).                         *)
(***************************************************************************)
EXTENDS Integers, Sequences, FiniteSets, TLC

(***************************************************************************)
(* Python str primitives                                                   *)
(***************************************************************************)

\* str.isspace / regex \s on the code points the model uses
IsSpace(c) == c \in {9, 10, 11, 12, 13, 28, 29, 30, 31, 32, 133, 160}

\* regex \d (ASCII digits; the model uses no other decimal digits)
IsDigit(c) == c >= 48 /\ c <= 57

\* regex \w on the code points the model uses: letters, digits, underscore
IsWordChar(c) ==
    \/ IsDigit(c)
    \/ c >= 65 /\ c <= 90
    \/ c >= 97 /\ c <= 122
    \/ c = 95
    \/ c >= 192 /\ c <= 383 /\ c # 215 /\ c # 247

\* str.lower on one code point (ASCII, Latin-1, Latin Extended-A)
LowerChar(c) ==
    IF c >= 65 /\ c <= 90 THEN c + 32
    ELSE IF c >= 192 /\ c <= 222 /\ c # 215 THEN c + 32
    ELSE IF c >= 256 /\ c <= 311 /\ c % 2 = 0 /\ c # 304 THEN c + 1
    ELSE IF c >= 313 /\ c <= 328 /\ c % 2 = 1 THEN c + 1
    ELSE IF c >= 330 /\ c <= 375 /\ c % 2 = 0 THEN c + 1
    ELSE IF c >= 377 /\ c <= 382 /\ c % 2 = 1 THEN c + 1
    ELSE c

\* a sequence given as a function, with its elements evaluated once
Eager(s) == SubSeq(s, 1, Len(s))

\* str.lower
Lower(s) == Eager([i \in 1..Len(s) |-> LowerChar(s[i])])

\* p in s
Contains(s, p) ==
    \/ Len(p) = 0
    \/ \E i \in 1..(Len(s) - Len(p) + 1) :
           s[i] = p[1] /\ SubSeq(s, i, i + Len(p) - 1) = p

\* s[i:].startswith(p), 1-based
StartsAt(s, i, p) ==
    /\ i + Len(p) - 1 <= Len(s)
    /\ SubSeq(s, i, i + Len(p) - 1) = p

\* str.strip()
Strip(s) ==
    LET keep == {i \in 1..Len(s) : ~IsSpace(s[i])}
    IN  IF keep = {} THEN <<>>
        ELSE LET lo == CHOOSE i \in keep : \A j \in keep : i <= j
                 hi == CHOOSE i \in keep : \A j \in (i + 1)..Len(s) : IsSpace(s[j])
             IN  SubSeq(s, lo, hi)

\* len(s.split()): the number of maximal runs of non-whitespace
SplitCount(s) ==
    Cardinality({i \in 1..Len(s) :
                    /\ ~IsSpace(s[i])
                    /\ (i = 1 \/ IsSpace(s[i - 1]))})

\* WHITESPACE_RE.sub(" ", s): every maximal whitespace run becomes one space
CollapseMarked(p) == ~IsSpace(p[1]) \/ ~p[2]
CollapseWs(s) ==
    LET marked == Eager([i \in 1..Len(s) |->
                            <<s[i], i > 1 /\ IsSpace(s[i - 1])>>])
        kept == SelectSeq(marked, CollapseMarked)
    IN  Eager([i \in 1..Len(kept) |->
                  IF IsSpace(kept[i][1]) THEN 32 ELSE kept[i][1]])

\* sep.join(parts)
RECURSIVE Join(_, _)
Join(parts, sep) ==
    IF Len(parts) = 0 THEN <<>>
    ELSE IF Len(parts) = 1 THEN parts[1]
    ELSE parts[1] \o sep \o Join(Tail(parts), sep)

\* c * n
Repeat(c, n) == Eager([i \in 1..n |-> c])


(***************************************************************************)
(* The parsed article: BeautifulSoup(content_html, "html.parser")          *)
(***************************************************************************)

\* node constructors: an element, an element with an id, a text node, a link
El(tag, parent) == [tag |-> tag, id |-> "", parent |-> parent, text |-> <<>>, href |-> <<>>]
ElId(tag, id, parent) == [tag |-> tag, id |-> id, parent |-> parent, text |-> <<>>, href |-> <<>>]
Tx(text, parent) == [tag |-> "#text", id |-> "", parent |-> parent, text |-> text, href |-> <<>>]
Anchor(href, parent) == [tag |-> "a", id |-> "", parent |-> parent, text |-> <<>>, href |-> href]

\* node i is r or lies inside the subtree of r
RECURSIVE InSubtree(_, _, _)
InSubtree(nodes, i, r) ==
    \/ i = r
    \/ /\ i > r
       /\ nodes[i].parent # 0
       /\ InSubtree(nodes, nodes[i].parent, r)

\* BeautifulSoup(html, "html.parser"): the tree, nothing decomposed yet
ParseHtml(html) == [nodes |-> html, gone |-> {}]

Alive(soup) == {i \in 1..Len(soup.nodes) : i \notin soup.gone}

\* soup.find_all(tags) as the set of matching node indices (document order)
FindAll(soup, tags) == {i \in Alive(soup) : soup.nodes[i].tag \in tags}

FirstOf(S) == IF S = {} THEN 0 ELSE CHOOSE i \in S : \A j \in S : i <= j

\* soup.find(tag): index of the first match, 0 for None
Find(soup, tag) == FirstOf(FindAll(soup, {tag}))

\* soup.find(tag, id=id)
FindById(soup, tag, id) ==
    FirstOf({i \in FindAll(soup, {tag}) : soup.nodes[i].id = id})

\* tag.decompose(): the subtree leaves the tree
Decompose(soup, r) ==
    [soup EXCEPT !.gone = @ \cup {i \in 1..Len(soup.nodes) : InSubtree(soup.nodes, i, r)}]

\* for tag in tags: tag.decompose()
DecomposeAll(soup, roots) ==
    [soup EXCEPT !.gone = @ \cup {i \in 1..Len(soup.nodes) :
                                     \E r \in roots : InSubtree(soup.nodes, i, r)}]

\* the strings of the subtree of root (0 = the whole document), in document
\* order; with strip=True each is stripped and the empty ones are skipped
Strings(soup, root, strip) ==
    LET idx == [i \in 1..Len(soup.nodes) |-> i]
        IsString(i) ==
            /\ i \in Alive(soup)
            /\ soup.nodes[i].tag = "#text"
            /\ (root = 0 \/ InSubtree(soup.nodes, i, root))
            /\ (strip => Strip(soup.nodes[i].text) # <<>>)
        sel == SelectSeq(idx, IsString)
    IN  Eager([k \in 1..Len(sel) |->
                  IF strip THEN Strip(soup.nodes[sel[k]].text) ELSE soup.nodes[sel[k]].text])

\* tag.get_text(separator, strip=strip)
GetText(soup, root, sep, strip) == Join(Strings(soup, root, strip), sep)

(***************************************************************************)
(* Content normalizer                                                      *)
(***************************************************************************)

TOC_ID == "ez-toc-container"
TOC_TAG == "div"
REMOVED_TAGS == {"script", "style", "noscript"}

\* the shared prefix of _get_clean_content_html and _get_first_paragraph:
\* drop the table of contents, then every script, style and noscript
FindToc(soup) == FindById(soup, TOC_TAG, TOC_ID)

RemoveToc(soup) ==
    LET toc == FindToc(soup)
    IN  IF toc # 0 THEN Decompose(soup, toc) ELSE soup

\* noscript left in place
RemoveScripts_KeepNoscript(soup) == DecomposeAll(soup, FindAll(soup, {"script", "style"}))

RemoveScripts(soup) == DecomposeAll(soup, FindAll(soup, REMOVED_TAGS))

_get_clean_content_html(html) ==
    LET soup == RemoveScripts(RemoveToc(ParseHtml(html)))
        clean_text == GetText(soup, 0, <<32>>, FALSE)
    IN  Strip(CollapseWs(clean_text))

_get_first_paragraph(html) ==
    LET soup == RemoveScripts(RemoveToc(ParseHtml(html)))
        first_p == Find(soup, "p")
    IN  IF first_p = 0 THEN <<>>
        ELSE Strip(CollapseWs(GetText(soup, first_p, <<>>, FALSE)))

(***************************************************************************)
(* utils.inflection                                                        *)
(***************************************************************************)

\* the suffix literals of utils.py, as the code points the source file holds
SUFFIX_ONE == <<111>>             \* 'o'
SUFFIX_FEW == <<3619, 3585>>      \* U+0E23 U+0E01, the two characters of the literal
SUFFIX_NONE == <<>>

inflection(num) ==
    IF num = 1 THEN SUFFIX_ONE
    ELSE IF 1 < num /\ num < 5 THEN SUFFIX_FEW
    ELSE SUFFIX_NONE

(***************************************************************************)
(* Article.__init__                                                        *)
(***************************************************************************)

\* JSON null / Python None, where a string is expected
None == <<-1>>

\* a key the post does not have: no 'content', or no 'rendered' inside it
NoContent == <<-2>>
NoRendered == <<-3>>

\* what post["content"]["rendered"] is
RenderedShape(post) ==
    IF post.content = NoContent THEN "no content"
    ELSE IF post.content = NoRendered THEN "no rendered"
    ELSE IF post.content = None THEN "null"
    ELSE "html"

\* a post is [title, content, description, link]: title.rendered,
\* content.rendered (a tree, None, or absent), yoast_head_json.description
\* (a string, or None) and link.  `raises`: the subscript raises KeyError
ArticleInit(post) ==
    LET content_html == IF RenderedShape(post) = "html" THEN post.content ELSE <<>>
    IN  [raises |-> RenderedShape(post) \in {"no content", "no rendered"},
         url |-> post.link,
         title |-> post.title,
         content_html |-> content_html,
         content_clean |-> _get_clean_content_html(content_html),
         meta_description |-> post.description]

(***************************************************************************)
(* The ten checks.  Each is modelled by three operators on the article a:  *)
(* X_raises (the call raises before anything is recorded), X_passed and    *)
(* X_recommendation (the arguments of its _add_to_report call).            *)
(***************************************************************************)

\* a recommendation text, as the message template and the values formatted
\* into it
Rec(msg, name, num, suffix, found) ==
    [msg |-> msg, name |-> name, num |-> num, suffix |-> suffix, found |-> found]

EMPTY_REC == Rec("", "", 0, <<>>, <<>>)

\* 1 direct_answer
FORBIDDEN_PHRASES ==
    << <<118, 32, 116, 111, 109, 116, 111, 32, 269, 108, 225, 110, 107, 117>>,       \* 'v tomto \u010dl\xe1nku'
       <<112, 111, 271, 109, 101, 32, 115, 97, 32, 112, 111, 122, 114, 105, 101, 357>>, \* 'po\u010fme sa pozrie\u0165'
       <<100, 111, 122, 118, 105, 101, 116, 101, 32, 115, 97>>,                      \* 'dozviete sa'
       <<112, 111, 118, 105, 101, 109, 101, 32, 115, 105>> >>                        \* 'povieme si'

FoundPhrases(a) ==
    LET intro == Lower(_get_first_paragraph(a.content_html))
        IsFound(p) == Contains(intro, p)
    IN  SelectSeq(FORBIDDEN_PHRASES, IsFound)

direct_answer_passed(a) == Len(FoundPhrases(a)) = 0
direct_answer_recommendation(a) ==
    Rec("Odstranit nechcene frazy ({found}).", "", 0, <<>>, FoundPhrases(a))

\* 2 definition
WHAT_IS_MARKERS ==
    { <<269, 111, 32, 106, 101>>,      \* '\u010do je'
      <<269, 111, 32, 115, 250>> }     \* '\u010do s\xfa'

\* the verbs with the English 'is' among them
DEFINITION_VERBS_English ==
    { <<106, 101>>, <<115, 250>>, <<122, 110, 97, 109, 101, 110, 225>>,
      <<112, 114, 101, 100, 115, 116, 97, 118, 117, 106, 101>>, <<105, 115>> }

DEFINITION_VERBS ==
    { <<106, 101>>,                                            \* 'je'
      <<115, 250>>,                                            \* 's\xfa'
      <<122, 110, 97, 109, 101, 110, 225>>,                    \* 'znamen\xe1'
      <<112, 114, 101, 100, 115, 116, 97, 118, 117, 106, 101>> } \* 'predstavuje'

\* another keyword excluded
EXCLUDED_KEYWORD_Other == <<102, 105, 116, 110, 101, 115, 115>>  \* 'fitness'

EXCLUDED_KEYWORD == <<102, 105, 116, 110, 101, 115, 115, 32, 114, 101, 99, 101, 112, 116>>  \* 'fitness recept'

COLON == 58

_contains_definition_in_what_is_segment(a) ==
    LET soup == ParseHtml(a.content_html)
        toc == FindToc(soup)
    IN  IF toc = 0 THEN FALSE
        ELSE LET toc_text == Lower(GetText(soup, toc, <<32>>, TRUE))
             IN  \E m \in WHAT_IS_MARKERS : Contains(toc_text, m)

\* title.split(":", 1)[0]
BeforeColon(title) ==
    LET first == FirstOf({i \in 1..Len(title) : title[i] = COLON})
    IN  SubSeq(title, 1, first - 1)

_contains_definition_by_title(a) ==
    IF ~(\E i \in 1..Len(a.title) : a.title[i] = COLON) THEN FALSE
    ELSE LET potential_keyword == Strip(BeforeColon(a.title))
         IN  IF \/ SplitCount(potential_keyword) > 2
                \/ potential_keyword = <<>>
                \/ Lower(potential_keyword) = EXCLUDED_KEYWORD
             THEN FALSE
             ELSE LET text == Lower(CollapseWs(a.content_clean))
                      keyword == Lower(potential_keyword)
                  IN  \E v \in DEFINITION_VERBS : Contains(text, keyword \o <<32>> \o v)

definition_passed(a) ==
    _contains_definition_in_what_is_segment(a) \/ _contains_definition_by_title(a)
definition_recommendation(a) ==
    Rec("Pridat priamu definiciu hlavneho pojmu.", "", 0, <<>>, <<>>)

\* 3 headings
MIN_H2 == 3

H2Count(a) == Cardinality(FindAll(ParseHtml(a.content_html), {"h2"}))

\* more than three h2 elements asked for
headings_passed_Strict(a) == H2Count(a) > MIN_H2

headings_passed(a) == H2Count(a) >= MIN_H2
headings_recommendation(a) ==
    Rec("Pridat nadpisy h2 v pocte aspon {num}.", "", MIN_H2 - H2Count(a), <<>>, <<>>)

\* 4 facts
FACT_UNITS ==
    { <<109, 103>>, <<103>>, <<107, 103>>, <<37>>, <<107, 99, 97, 108>>,   \* mg g kg % kcal
      <<109, 108>>, <<109, 99, 103>>,                                      \* ml mcg
      <<103, 114, 97, 109, 111, 118>>,                                     \* gramov
      <<109, 105, 108, 105, 103, 114, 97, 109, 111, 118>> }                \* miligramov

MIN_FACTS == 3

\* one of the units starts at position k of s, ignoring case
UnitAt(s, k) ==
    \E u \in FACT_UNITS :
        /\ k + Len(u) - 1 <= Len(s)
        /\ LowerChar(s[k]) = u[1]
        /\ Lower(SubSeq(s, k, k + Len(u) - 1)) = u

\* len(facts_regex.findall(s)): \d+ is greedy and no unit starts with a digit,
\* so the matches are the digit runs followed by an optional space and a unit
FactsCount(s) ==
    Cardinality({j \in 1..Len(s) :
        /\ IsDigit(s[j])
        /\ (j = Len(s) \/ ~IsDigit(s[j + 1]))
        /\ \/ UnitAt(s, j + 1)
           \/ j < Len(s) /\ IsSpace(s[j + 1]) /\ UnitAt(s, j + 2)})

facts_passed(a) == FactsCount(a.content_clean) >= MIN_FACTS
facts_recommendation(a) ==
    Rec("Pridat ciselne udaje s jednotkami v pocte aspon {num}.", "",
        MIN_FACTS - FactsCount(a.content_clean), <<>>, <<>>)

\* re.search(r"\b(w1|w2|...)\b", s, re.IGNORECASE); every word of the two
\* patterns below starts and ends with a \w character
WordSearch(s, words) ==
    \E w \in words : \E i \in 1..(Len(s) - Len(w) + 1) :
        /\ LowerChar(s[i]) = w[1]
        /\ Lower(SubSeq(s, i, i + Len(w) - 1)) = w
        /\ (i = 1 \/ ~IsWordChar(s[i - 1]))
        /\ (i + Len(w) - 1 = Len(s) \/ ~IsWordChar(s[i + Len(w)]))

\* 5 sources
SOURCE_DOMAINS ==
    { <<112, 117, 98, 109, 101, 100, 46, 110, 99, 98, 105, 46, 110, 108, 109, 46, 110, 105, 104, 46, 103, 111, 118>>, \* pubmed.ncbi.nlm.nih.gov
      <<112, 109, 99, 46, 110, 99, 98, 105, 46, 110, 108, 109, 46, 110, 105, 104, 46, 103, 111, 118>>,             \* pmc.ncbi.nlm.nih.gov
      <<101, 120, 97, 109, 105, 110, 101, 46, 99, 111, 109>> }                                                    \* examine.com

SOURCE_WORDS ==
    { <<122, 100, 114, 111, 106, 101>>,                        \* zdroje
      <<114, 101, 102, 101, 114, 101, 110, 99, 101, 115>>,     \* references
      <<353, 116, 250, 100, 105, 101>> }                       \* '\u0161t\xfadie'

sources_passed(a) ==
    LET soup == ParseHtml(a.content_html)
        has_scientific_link ==
            \E i \in FindAll(soup, {"a"}) : \E d \in SOURCE_DOMAINS :
                Contains(soup.nodes[i].href, d)
        has_source_text == WordSearch(a.content_clean, SOURCE_WORDS)
    IN  has_scientific_link \/ has_source_text
sources_recommendation(a) == Rec("Pridat sekciu Zdroje.", "", 0, <<>>, <<>>)

\* 6 faq
FAQ_WORDS ==
    { <<102, 38, 113>>,                                                                             \* f&q
      <<102, 97, 113>>,                                                                             \* faq
      <<269, 97, 115, 116, 111, 32, 107, 108, 97, 100, 101, 110, 233, 32, 111, 116, 225, 122, 107, 121>>, \* '\u010dasto kladen\xe9 ot\xe1zky'
      <<111, 116, 225, 122, 107, 121, 32, 97, 32, 111, 100, 112, 111, 118, 101, 100, 101>> }         \* 'ot\xe1zky a odpovede'

HEADING_TAGS == {"h1", "h2", "h3", "h4", "h5", "h6"}

HeadingsText(a) ==
    LET soup == ParseHtml(a.content_html)
        idx == [i \in 1..Len(soup.nodes) |-> i]
        IsHeading(i) == i \in FindAll(soup, HEADING_TAGS)
        hs == SelectSeq(idx, IsHeading)
    IN  Join(Eager([k \in 1..Len(hs) |-> GetText(soup, hs[k], <<>>, TRUE)]), <<32>>)

faq_passed(a) ==
    WordSearch(HeadingsText(a), FAQ_WORDS) \/ WordSearch(a.content_clean, FAQ_WORDS)
faq_recommendation(a) == Rec("Pridat F&Q sekciu.", "", 0, <<>>, <<>>)

\* 7 lists
lists_passed(a) ==
    LET soup == ParseHtml(a.content_html)
    IN  Find(soup, "ul") # 0 \/ Find(soup, "ol") # 0
lists_recommendation(a) ==
    Rec("Pridat aspon 1 odrazkovy alebo ocislovany zoznam.", "", 0, <<>>, <<>>)

\* 8 tables
tables_passed(a) == Find(ParseHtml(a.content_html), "table") # 0
tables_recommendation(a) == Rec("Pridat aspon 1 tabulku.", "", 0, <<>>, <<>>)

\* 9 word_count_ok
MIN_WORDS_DEFAULT == 500

WordCount(a) == SplitCount(a.content_clean)

word_count_ok_passed(a, min_words) == WordCount(a) >= min_words
word_count_ok_recommendation(a, min_words) ==
    Rec("Clanok nie je dostatocne dlhy, pridat aspon {num} slov{suffix}.", "",
        min_words - WordCount(a), inflection(min_words - WordCount(a)), <<>>)

\* 10 meta_ok
MIN_LEN_DEFAULT == 120
MAX_LEN_DEFAULT == 160

\* self.meta_description.strip() raises AttributeError on None
meta_ok_raises(a) == a.meta_description = None

MetaLength(a) == Len(Strip(a.meta_description))

\* the lower limit itself not accepted
meta_ok_passed_Strict(a, min_len, max_len) ==
    min_len < MetaLength(a) /\ MetaLength(a) <= max_len

meta_ok_passed(a, min_len, max_len) ==
    min_len <= MetaLength(a) /\ MetaLength(a) <= max_len
meta_ok_recommendation(a, min_len, max_len) ==
    LET length == MetaLength(a)
    IN  IF length < min_len
        THEN Rec("Meta popis je prikratky, pridat aspon {num} slov{suffix}.", "",
                 min_len - length, inflection(min_len - length), <<>>)
        ELSE IF length > max_len
        THEN Rec("Meta popis je pridlhy, ubrat aspon {num} slov{suffix}.", "",
                 length - max_len, inflection(length - max_len), <<>>)
        ELSE EMPTY_REC

(***************************************************************************)
(* The posts the model analyses                                            *)
(***************************************************************************)

\* bounds of the generated posts
MaxMetaLen == 162
MaxH2 == 5

T_Test == <<84, 101, 115, 116>>   \* 'Test'
T_A == <<65>>
T_B == <<66>>
T_C == <<67>>
T_X == <<120>>

\* 500 one-letter words separated by single spaces
LongText ==
    Eager([i \in 1..(2 * MIN_WORDS_DEFAULT - 1) |-> IF i % 2 = 1 THEN 97 ELSE 32])

\* the end-to-end scenario of the specification (English text)
PostCreatine ==
    [title |-> <<67, 114, 101, 97, 116, 105, 110, 101, 58, 32, 119, 104, 97, 116, 32, 105, 115, 32, 97, 110, 100, 32, 104, 111, 119, 32, 105, 116, 32, 119, 111, 114, 107, 115>>, \* 'Creatine: what is and how it works'
     content |-> << El("p", 0),
                    Tx(<<67, 114, 101, 97, 116, 105, 110, 101, 32, 105, 115, 32, 97, 32, 115, 117, 98, 115, 116, 97, 110, 99, 101, 46, 46, 46>>, 1), \* 'Creatine is a substance...'
                    El("h2", 0), Tx(T_A, 3),
                    El("h2", 0), Tx(T_B, 5),
                    El("h2", 0), Tx(T_C, 7),
                    El("ul", 0), El("li", 9), Tx(T_X, 10),
                    El("table", 0) >>,
     description |-> Repeat(120, 140),
     link |-> <<117, 49>>]

\* the same scenario as the repository's test states it (Slovak text)
PostKreatin ==
    [title |-> <<75, 114, 101, 97, 116, 237, 110, 58, 32, 269, 111, 32, 106, 101, 32, 97, 32, 97, 107, 111, 32, 102, 117, 110, 103, 117, 106, 101>>, \* 'Kreat\xedn: \u010do je a ako funguje'
     content |-> << El("p", 0),
                    Tx(<<75, 114, 101, 97, 116, 237, 110, 32, 106, 101, 32, 108, 225, 116, 107, 97, 46, 46, 46>>, 1), \* 'Kreat\xedn je l\xe1tka...'
                    El("h2", 0), Tx(T_A, 3),
                    El("h2", 0), Tx(T_B, 5),
                    El("h2", 0), Tx(T_C, 7),
                    El("ul", 0), El("li", 9), Tx(T_X, 10),
                    El("table", 0) >>,
     description |-> Repeat(120, 140),
     link |-> <<117, 50>>]

\* a filler introduction, two headings, a meta description one short
PostFiller ==
    [title |-> T_Test,
     content |-> << El("p", 0),
                    Tx(<<86, 32, 116, 111, 109, 116, 111, 32, 269, 108, 225, 110, 107, 117, 32, 115, 97, 32, 100, 111, 122, 118, 105, 101, 116, 101, 46, 46, 46>>, 1), \* 'V tomto \u010dl\xe1nku sa dozviete...'
                    El("h2", 0), Tx(T_A, 3),
                    El("h2", 0), Tx(T_B, 5) >>,
     description |-> Repeat(120, 119),
     link |-> <<117, 51>>]

\* an article that passes all ten checks
PostRich ==
    [title |-> T_Test,
     content |-> << ElId("div", "ez-toc-container", 0),
                    Tx(<<268, 111, 32, 106, 101, 32, 107, 114, 101, 97, 116, 237, 110>>, 1), \* '\u010co je kreat\xedn'
                    El("p", 0),
                    Tx(<<75, 114, 101, 97, 116, 237, 110, 32, 111, 98, 115, 97, 104, 117, 106, 101, 32, 53, 32, 103, 44, 32, 49, 48, 109, 103, 32, 97, 32, 50, 48, 32, 37, 32, 100, 101, 110, 110, 101, 46>>, 3), \* 'Kreat\xedn obsahuje 5 g, 10mg a 20 % denne.'
                    El("h2", 0), Tx(T_A, 5),
                    El("h2", 0), Tx(T_B, 7),
                    El("h2", 0), Tx(<<70, 65, 81>>, 9), \* 'FAQ'
                    Anchor(<<104, 116, 116, 112, 115, 58, 47, 47, 112, 117, 98, 109, 101, 100, 46, 110, 99, 98, 105, 46, 110, 108, 109, 46, 110, 105, 104, 46, 103, 111, 118, 47, 49, 50, 51>>, 0), \* 'https://pubmed.ncbi.nlm.nih.gov/123'
                    El("ol", 0), El("li", 12), Tx(T_X, 13),
                    El("table", 0),
                    El("p", 0), Tx(LongText, 16),
                    El("script", 0), Tx(<<97, 108, 101, 114, 116, 40, 49, 41>>, 18) >>, \* 'alert(1)'
     description |-> <<32, 9>> \o Repeat(120, 160) \o <<10, 32>>,
     link |-> <<117, 52>>]

\* content.rendered is null and the meta description is null
PostNull ==
    [title |-> T_Test, content |-> None, description |-> None,
     link |-> <<117, 53>>]

\* filler phrases only inside script and noscript, a meta description one long
PostScripts ==
    [title |-> T_Test,
     content |-> << El("script", 0),
                    Tx(<<100, 111, 122, 118, 105, 101, 116, 101, 32, 115, 97>>, 1), \* 'dozviete sa'
                    El("noscript", 0), El("p", 3),
                    Tx(<<112, 111, 118, 105, 101, 109, 101, 32, 115, 105>>, 4), \* 'povieme si'
                    El("p", 0), Tx(<<72, 101, 108, 108, 111>>, 6), \* 'Hello'
                    El("p", 0), Tx(<<87, 111, 114, 108, 100>>, 8) >>, \* 'World'
     description |-> Repeat(120, 161),
     link |-> <<117, 54>>]

\* sources and FAQ named in the text only, two numeric facts, one heading
PostPlain ==
    [title |-> <<79, 98, 115, 97, 104, 58, 32, 269, 111, 32, 106, 101, 32, 107, 114, 101, 97, 116, 237, 110>>, \* 'Obsah: \u010do je kreat\xedn'
     content |-> << El("h2", 0), Tx(T_A, 1),
                    El("p", 0),
                    Tx(<<90, 100, 114, 111, 106, 101, 32, 97, 32, 102, 97, 113, 58, 32, 53, 32, 103, 44, 32, 51, 32, 107, 99, 97, 108, 46>>, 3) >>, \* 'Zdroje a faq: 5 g, 3 kcal.'
     description |-> Repeat(120, 120),
     link |-> <<117, 55>>]

\* the excluded stock keyword in the title, defined in the text
PostRecept ==
    [title |-> <<70, 105, 116, 110, 101, 115, 115, 32, 82, 101, 99, 101, 112, 116, 58, 32, 116, 118, 97, 114, 111, 104, 111, 118, 253, 32, 107, 111, 108, 225, 269>>, \* 'Fitness Recept: tvarohov\xfd kol\xe1\u010d'
     content |-> << El("p", 0),
                    Tx(<<70, 105, 116, 110, 101, 115, 115, 32, 114, 101, 99, 101, 112, 116, 32, 106, 101, 32, 99, 104, 117, 116, 110, 253, 46>>, 1) >>, \* 'Fitness recept je chutn\xfd.'
     description |-> <<>>,
     link |-> <<117, 56>>]

\* content.rendered is null, the rest of the post is in order
PostNullContent ==
    [title |-> T_Test, content |-> None, description |-> <<>>,
     link |-> <<117, 57>>]

\* a post without the 'content' key
PostNoContent ==
    [title |-> T_Test, content |-> NoContent, description |-> <<>>,
     link |-> <<117, 49, 48>>]

\* a post whose 'content' has no 'rendered' key
PostNoRendered ==
    [title |-> T_Test, content |-> NoRendered, description |-> <<>>,
     link |-> <<117, 49, 49>>]

FixedPosts ==
    { PostCreatine, PostKreatin, PostFiller, PostRich,
      PostNull, PostScripts, PostPlain, PostRecept,
      PostNullContent, PostNoContent, PostNoRendered }

\* a post whose meta description is n characters long, bare or padded with
\* whitespace on both sides
MetaPost(n, pad) ==
    [title |-> T_Test, content |-> <<>>,
     description |-> IF pad THEN <<32, 10>> \o Repeat(120, n) \o <<9>>
                     ELSE Repeat(120, n),
     link |-> <<117>>]

MetaPosts == {MetaPost(n, pad) : n \in 0..MaxMetaLen, pad \in BOOLEAN}

\* n h2 headings and nothing else
RECURSIVE H2Tree(_)
H2Tree(n) ==
    IF n = 0 THEN <<>>
    ELSE H2Tree(n - 1) \o << El("h2", 0), Tx(T_A, 2 * n - 1) >>

HeadingPost(n) ==
    [title |-> T_Test, content |-> H2Tree(n), description |-> <<>>, link |-> <<117>>]

HeadingPosts == {HeadingPost(n) : n \in 0..MaxH2}

\* titles and contents for the definition check
DefinitionTitles ==
    { <<75, 114, 101, 97, 116, 237, 110, 58, 32, 120>>,                               \* 'Kreat\xedn: x'
      <<75, 82, 69, 65, 84, 205, 78, 32, 58, 32, 120>>,                               \* 'KREAT\xcdN : x'
      <<70, 105, 116, 110, 101, 115, 115, 32, 82, 101, 99, 101, 112, 116, 58, 32, 120>>, \* 'Fitness Recept: x'
      <<70, 73, 84, 78, 69, 83, 83, 32, 82, 69, 67, 69, 80, 84, 58, 32, 120>>,        \* 'FITNESS RECEPT: x'
      <<32, 58, 32, 120>>,                                                            \* ' : x'
      <<97, 32, 98, 32, 99, 58, 32, 120>>,                                            \* 'a b c: x'
      <<75, 114, 101, 97, 116, 237, 110>>,                                            \* 'Kreat\xedn'
      <<75, 114, 101, 97, 116, 237, 110, 58, 32, 97, 58, 32, 98>>,                    \* 'Kreat\xedn: a: b'
      <<87, 104, 101, 121, 32, 32, 112, 114, 111, 116, 101, 237, 110, 58, 32, 120>> } \* 'Whey  prote\xedn: x'

Paragraph(text) == << El("p", 0), Tx(text, 1) >>

DefinitionContents ==
    { Paragraph(<<75, 114, 101, 97, 116, 237, 110, 32, 106, 101, 32, 108, 225, 116, 107, 97, 46>>),   \* 'Kreat\xedn je l\xe1tka.'
      Paragraph(<<107, 114, 101, 97, 116, 237, 110, 32, 32, 122, 110, 97, 109, 101, 110, 225, 32, 115, 105, 108, 117>>), \* 'kreat\xedn  znamen\xe1 silu'
      Paragraph(<<70, 105, 116, 110, 101, 115, 115, 32, 114, 101, 99, 101, 112, 116, 32, 106, 101, 32, 99, 104, 117, 116, 110, 253, 46>>), \* 'Fitness recept je chutn\xfd.'
      Paragraph(<<97, 32, 98, 32, 99, 32, 106, 101, 32, 100>>),                       \* 'a b c je d'
      Paragraph(<<119, 104, 101, 121, 32, 112, 114, 111, 116, 101, 237, 110, 32, 112, 114, 101, 100, 115, 116, 97, 118, 117, 106, 101>>), \* 'whey prote\xedn predstavuje'
      Paragraph(<<110, 105, 269>>),                                                   \* 'ni\u010d'
      << ElId("div", TOC_ID, 0), Tx(<<268, 111, 32, 106, 101, 32, 107, 114, 101, 97, 116, 237, 110>>, 1) >>, \* toc: '\u010co je kreat\xedn'
      << ElId("div", TOC_ID, 0), El("a", 1), Tx(<<32, 268, 111, 10>>, 2),
         El("a", 1), Tx(<<115, 250>>, 4) >>,                                          \* toc: ' \u010co\n', 's\xfa'
      << ElId("div", TOC_ID, 0), Tx(<<110, 105, 269>>, 1) >>,                         \* toc: 'ni\u010d'
      << ElId("span", TOC_ID, 0), Tx(<<268, 111, 32, 106, 101, 32, 107, 114, 101, 97, 116, 237, 110>>, 1) >> } \* a span with the id

DefinitionPosts ==
    { [title |-> t, content |-> c, description |-> <<>>, link |-> <<117>>] :
          t \in DefinitionTitles, c \in DefinitionContents }

(***************************************************************************)
(* Dispatch over the ten checks                                            *)
(***************************************************************************)

\* the names and the order of Article.analyze
ANALYZE_STEPS ==
    << "direct_answer", "definition", "headings", "facts", "sources",
       "faq", "lists", "tables", "word_count_ok", "meta_ok" >>

CheckNames == {ANALYZE_STEPS[i] : i \in 1..Len(ANALYZE_STEPS)}

\* the keyword arguments of analyze_word_count_ok and analyze_meta_ok
DefaultArgs ==
    [min_words |-> MIN_WORDS_DEFAULT, min_len |-> MIN_LEN_DEFAULT, max_len |-> MAX_LEN_DEFAULT]

\* the check raises on this article before it records anything
CheckRaises(a, name) == name = "meta_ok" /\ meta_ok_raises(a)

CheckPassed(a, name, args) ==
    CASE name = "direct_answer" -> direct_answer_passed(a)
      [] name = "definition" -> definition_passed(a)
      [] name = "headings" -> headings_passed(a)
      [] name = "facts" -> facts_passed(a)
      [] name = "sources" -> sources_passed(a)
      [] name = "faq" -> faq_passed(a)
      [] name = "lists" -> lists_passed(a)
      [] name = "tables" -> tables_passed(a)
      [] name = "word_count_ok" -> word_count_ok_passed(a, args.min_words)
      [] name = "meta_ok" -> meta_ok_passed(a, args.min_len, args.max_len)

CheckRecommendation(a, name, args) ==
    CASE name = "direct_answer" -> direct_answer_recommendation(a)
      [] name = "definition" -> definition_recommendation(a)
      [] name = "headings" -> headings_recommendation(a)
      [] name = "facts" -> facts_recommendation(a)
      [] name = "sources" -> sources_recommendation(a)
      [] name = "faq" -> faq_recommendation(a)
      [] name = "lists" -> lists_recommendation(a)
      [] name = "tables" -> tables_recommendation(a)
      [] name = "word_count_ok" -> word_count_ok_recommendation(a, args.min_words)
      [] name = "meta_ok" -> meta_ok_recommendation(a, args.min_len, args.max_len)

\* what one call of analyze_<name>(**args) does on article a: it raises, or
\* it calls _add_to_report(name, passed, recommendation)
CheckOutcome(a, name, args) ==
    IF CheckRaises(a, name)
    THEN [raises |-> TRUE, passed |-> FALSE, recommendation |-> EMPTY_REC]
    ELSE [raises |-> FALSE,
          passed |-> CheckPassed(a, name, args),
          recommendation |-> CheckRecommendation(a, name, args)]

\* a callable that raises
Boom == [raises |-> TRUE, passed |-> FALSE, recommendation |-> EMPTY_REC]

(***************************************************************************)
(* The Article object                                                      *)
(***************************************************************************)

VARIABLES
    content_rendered, \* what the post handed to Article() holds as content.rendered
    constructed,      \* Article(post) returned an Article
    url,              \* self.url
    title,            \* self.title
    content_html,     \* self.content_html, as the tree the parser builds from it
    content_clean,    \* self.content_clean
    meta_description, \* self.meta_description
    score,            \* self.score
    points,           \* self.points, a dict: [key, value] entries in insertion order
    recommendations,  \* self.recommendations
    faulty,           \* the checks replaced by a test double that raises
    warn_filter,      \* the action of the host's warning filter for RuntimeWarning
    registry,         \* __warningregistry__: the warnings already shown once
    shown,            \* the warnings shown so far, by check name
    results,          \* the dict each analyze() call returned, as it was on return
    raised,           \* an exception left the last call
    calls,            \* the number of calls made on the Article
    num, suffix,      \* an argument of inflection and what it returned
    html, normalized, \* a content tree and its clean text and first paragraph
    columns,          \* Reporter.columns
    rows,             \* Reporter.rows, each a dict: [key, value] entries in order
    exports,          \* the files the Reporter has written, oldest first
    reports,          \* the number of do_report and add_article calls made
    report_args,      \* the arguments of the last do_report or add_article call
    template,         \* the template handed to fill_template
    ctx,              \* the ctx handed to fill_template, in iteration order
    filled            \* what fill_template returned

vars == << content_rendered, constructed, url, title, content_html, content_clean, meta_description, score, points,
           recommendations, faulty, warn_filter, registry, shown, results, raised,
           calls, num, suffix, html, normalized,
           columns, rows, exports, reports, report_args, template, ctx, filled >>

fieldVars == << content_rendered, constructed, url, title, content_html, content_clean,
               meta_description >>
utilVars == << num, suffix >>
normVars == << html, normalized >>
reporterVars == << columns, rows, exports, reports, report_args >>
templateVars == << template, ctx, filled >>

\* bounds of the runs
MaxAnalyze == 2
MaxCalls == 2
MaxFaulty == 2

WarnActions == {"default", "always", "ignore", "error"}

\* the Article's immutable fields, as the checks read them
Self ==
    [url |-> url, title |-> title, content_html |-> content_html,
     content_clean |-> content_clean, meta_description |-> meta_description]

\* d[key] = value on a dict kept as a sequence of entries
DictSet(d, key, value) ==
    IF \E i \in 1..Len(d) : d[i].key = key
    THEN Eager([i \in 1..Len(d) |-> IF d[i].key = key THEN [key |-> key, value |-> value] ELSE d[i]])
    ELSE Append(d, [key |-> key, value |-> value])

DictKeys(d) == Eager([i \in 1..Len(d) |-> d[i].key])

\* the Article's accumulators as one record, to thread them through a call
Acc == [score |-> score, points |-> points, recommendations |-> recommendations,
        registry |-> registry, shown |-> shown, raised |-> FALSE]

\* the recommendation appended whether or not the check passed
_add_to_report_Always(acc, name, passed, recommendation) ==
    [acc EXCEPT !.points = DictSet(@, name, passed),
                !.score = @ + (IF passed THEN 1 ELSE 0),
                !.recommendations = Append(@, recommendation)]

_add_to_report(acc, name, passed, recommendation) ==
    [acc EXCEPT !.points = DictSet(@, name, passed),
                !.score = @ + (IF passed THEN 1 ELSE 0),
                !.recommendations = IF passed THEN @ ELSE Append(@, recommendation)]

\* warnings.warn(message, category=RuntimeWarning, stacklevel=2) from the
\* except clause, attributed to the line `site` of the caller; the message
\* names the check and the article's url
Warn(a, acc, name, site) ==
    IF warn_filter = "error" THEN [acc EXCEPT !.raised = TRUE]
    ELSE IF warn_filter = "ignore" THEN acc
    ELSE IF warn_filter = "always" THEN [acc EXCEPT !.shown = Append(@, name)]
    ELSE IF <<name, a.url, site>> \in acc.registry THEN acc
    ELSE [acc EXCEPT !.shown = Append(@, name),
                     !.registry = @ \cup {<<name, a.url, site>>}]

SyntheticRecommendation(name) ==
    Rec("Analyza '{name}' zlyhala kvoli chybe.", name, 0, <<>>, <<>>)

\* _run_analysis_step(name, fn), where calling fn has the outcome `out`
_run_analysis_step(a, acc, name, out, site) ==
    IF ~out.raises
    THEN _add_to_report(acc, name, out.passed, out.recommendation)
    ELSE LET warned == Warn(a, acc, name, site)
         IN  IF warned.raised THEN warned
             ELSE _add_to_report(warned, name, FALSE, SyntheticRecommendation(name))

\* the outcome of step k of analyze(): the bound method, or its double
StepOutcome(a, k) ==
    IF ANALYZE_STEPS[k] \in faulty THEN Boom
    ELSE CheckOutcome(a, ANALYZE_STEPS[k], DefaultArgs)

\* steps k..10 of analyze(); an exception that leaves a step ends the call
RECURSIVE RunSteps(_, _, _)
RunSteps(a, acc, k) ==
    IF k > Len(ANALYZE_STEPS) \/ acc.raised THEN acc
    ELSE RunSteps(a,
                  _run_analysis_step(a, acc, ANALYZE_STEPS[k], StepOutcome(a, k), "analyze"),
                  k + 1)

\* the dict analyze() returns
ResultOf(a, acc) ==
    [url |-> a.url, title |-> a.title, score |-> acc.score, report |-> acc.points, recommendations |-> acc.recommendations]

Store(acc) ==
    /\ score' = acc.score
    /\ points' = acc.points
    /\ recommendations' = acc.recommendations
    /\ registry' = acc.registry
    /\ shown' = acc.shown
    /\ raised' = acc.raised
    /\ calls' = calls + 1

\* article.analyze()
Analyze(bound) ==
    /\ constructed
    /\ calls < bound
    /\ LET acc == RunSteps(Self, Acc, 1)
       IN  /\ Store(acc)
           /\ results' = IF acc.raised THEN results ELSE Append(results, ResultOf(Self, acc))
    /\ UNCHANGED << fieldVars, faulty, warn_filter, utilVars, normVars, reporterVars, templateVars >>

\* article.analyze_<name>(**args), called directly
CallCheck(name, args, bound) ==
    /\ constructed
    /\ calls < bound
    /\ LET out == CheckOutcome(Self, name, args)
       IN  Store(IF out.raises THEN [Acc EXCEPT !.raised = TRUE]
                 ELSE _add_to_report(Acc, name, out.passed, out.recommendation))
    /\ UNCHANGED << results, fieldVars, faulty, warn_filter, utilVars, normVars, reporterVars, templateVars >>

\* article._run_analysis_step(name, fn), called directly: fn is the bound
\* method analyze_<name>, or a callable that raises
RunStep(name, boom) ==
    /\ constructed
    /\ calls < MaxCalls
    /\ LET out == IF boom THEN Boom ELSE CheckOutcome(Self, name, DefaultArgs)
       IN  Store(_run_analysis_step(Self, Acc, name, out, "caller"))
    /\ UNCHANGED << results, fieldVars, faulty, warn_filter, utilVars, normVars, reporterVars, templateVars >>

\* Article(post)
Construct(post) ==
    LET a == ArticleInit(post)
    IN  /\ content_rendered = RenderedShape(post)
        /\ constructed = ~a.raises
        /\ url = a.url
        /\ title = a.title
        /\ content_html = a.content_html
        /\ content_clean = a.content_clean
        /\ meta_description = a.meta_description
        /\ score = 0
        /\ points = <<>>
        /\ recommendations = <<>>
        /\ registry = {}
        /\ shown = <<>>
        /\ results = <<>>
        /\ raised = a.raises
        /\ calls = 0

\* the check columns in a different order
POINT_COLS_Reordered ==
    << "definition", "direct_answer", "headings", "facts", "sources",
       "faq", "lists", "tables", "word_count_ok", "meta_ok" >>

\* reporter_utils.POINT_COLS
POINT_COLS ==
    << "direct_answer", "definition", "headings", "facts", "sources",
       "faq", "lists", "tables", "word_count_ok", "meta_ok" >>

NoArgs == [op |-> "none"]

\* Reporter()
ReporterInit ==
    /\ columns = <<"url", "title", "score">> \o POINT_COLS \o <<"recommendations">>
    /\ rows = <<>>
    /\ exports = <<>>
    /\ reports = 0
    /\ report_args = NoArgs

NoUtil == num = 0 /\ suffix = None
NoTemplate == template = <<>> /\ ctx = <<>> /\ filled = None
NotNormalized == [clean |-> None, first |-> None]
NoNorm == html = <<>> /\ normalized = NotNormalized

FaultySets == {F \in SUBSET CheckNames : Cardinality(F) <= MaxFaulty}

\* Article(post).analyze(), once or again, for every fixed post, every small
\* set of raising checks and every warning filter
Init ==
    /\ \E post \in FixedPosts : Construct(post)
    /\ faulty \in FaultySets
    /\ warn_filter \in WarnActions
    /\ NoUtil
    /\ NoNorm
    /\ ReporterInit
    /\ NoTemplate

Next == Analyze(MaxAnalyze)

Spec == Init /\ [][Next]_vars

(***************************************************************************)
(* Any sequence of calls on one Article                                    *)
(***************************************************************************)

\* the keyword arguments a caller passes to a check
CheckArgs ==
    { DefaultArgs,
      [min_words |-> 2, min_len |-> 0, max_len |-> 0],
      [min_words |-> 1000, min_len |-> 150, max_len |-> 130] }

CallPosts == { PostKreatin, PostNull, PostFiller }
CallNames == { "definition", "headings", "meta_ok" }

InitCalls ==
    /\ \E post \in CallPosts : Construct(post)
    /\ faulty = {}
    /\ warn_filter \in WarnActions
    /\ NoUtil
    /\ NoNorm
    /\ ReporterInit
    /\ NoTemplate

NextCalls ==
    \/ \E name \in CallNames, args \in CheckArgs : CallCheck(name, args, MaxCalls)
    \/ \E name \in CallNames, boom \in BOOLEAN : RunStep(name, boom)
    \/ Analyze(MaxCalls)

SpecCalls == InitCalls /\ [][NextCalls]_vars

\* _run_analysis_step alone, on checks that return and on callables that raise
NextSteps == \E name \in CallNames, boom \in BOOLEAN : RunStep(name, boom)

SpecSteps == InitCalls /\ [][NextSteps]_vars

(***************************************************************************)
(* One check called on a fresh Article                                     *)
(***************************************************************************)

InitChecks ==
    /\ \E post \in MetaPosts \cup HeadingPosts \cup DefinitionPosts \cup FixedPosts :
           Construct(post)
    /\ faulty = {}
    /\ warn_filter = "default"
    /\ NoUtil
    /\ NoNorm
    /\ ReporterInit
    /\ NoTemplate

NextChecks == \E name \in CheckNames, args \in CheckArgs : CallCheck(name, args, 1)

SpecChecks == InitChecks /\ [][NextChecks]_vars

(***************************************************************************)
(* utils.inflection on its own                                             *)
(***************************************************************************)

MaxNum == 30

Inflect ==
    /\ suffix = None
    /\ suffix' = inflection(num)
    /\ UNCHANGED << fieldVars, score, points, recommendations, faulty, warn_filter,
                    registry, shown, results, raised, calls, num, normVars,
                    reporterVars, templateVars >>

InitUtils ==
    /\ Construct(PostFiller)
    /\ faulty = {}
    /\ warn_filter = "default"
    /\ num \in (0 - MaxNum)..MaxNum
    /\ suffix = None
    /\ NoNorm
    /\ ReporterInit
    /\ NoTemplate

NextUtils == Inflect

SpecUtils == InitUtils /\ [][NextUtils]_vars

(***************************************************************************)
(* The content normalizer on its own                                       *)
(***************************************************************************)

MaxSections == 2

SectionTags == {"p", "div", "span", "script", "style", "noscript"}

\* a section is an element holding one text node; it may carry the id of the
\* table of contents and may lie inside the section before it
SectionKinds == [tag : SectionTags, id : {"", TOC_ID}, nested : BOOLEAN]

\* html.parser reads the content of script and style as text, so no element
\* lies inside them
WellFormed(secs) ==
    \A k \in 1..Len(secs) :
        secs[k].nested => k > 1 /\ secs[k - 1].tag \notin {"script", "style"}

\* section k is nodes 2k-1 (the element) and 2k (its text, the letter 64+k)
TreeOf(secs) ==
    Eager([i \in 1..(2 * Len(secs)) |->
        LET k == (i + 1) \div 2
        IN  IF i % 2 = 1
            THEN ElId(secs[k].tag, secs[k].id, IF secs[k].nested THEN i - 2 ELSE 0)
            ELSE Tx(<<64 + k>>, i - 1)])

Trees ==
    { TreeOf(secs) : secs \in { q \in UNION {[1..k -> SectionKinds] : k \in 0..MaxSections} :
                                    WellFormed(q) } }

\* Article(post) computes the clean text; analyze_direct_answer the first paragraph
Normalize ==
    /\ normalized = NotNormalized
    /\ normalized' = [clean |-> _get_clean_content_html(html),
                      first |-> _get_first_paragraph(html)]
    /\ UNCHANGED << fieldVars, score, points, recommendations, faulty, warn_filter,
                    registry, shown, results, raised, calls, utilVars, html,
                    reporterVars, templateVars >>

InitNormalizer ==
    /\ Construct(PostFiller)
    /\ faulty = {}
    /\ warn_filter = "default"
    /\ NoUtil
    /\ html \in Trees
    /\ normalized = NotNormalized
    /\ ReporterInit
    /\ NoTemplate

NextNormalizer == Normalize

SpecNormalizer == InitNormalizer /\ [][NextNormalizer]_vars

(***************************************************************************)
(* The text of a recommendation                                            *)
(***************************************************************************)

\* str(n) of an int
RECURSIVE Digits(_)
Digits(n) == IF n < 10 THEN <<48 + n>> ELSE Digits(n \div 10) \o <<48 + (n % 10)>>
Decimal(n) == IF n < 0 THEN <<45>> \o Digits(0 - n) ELSE Digits(n)

\* str(list of str): each item in single quotes, separated by ', '
Quoted(p) == <<39>> \o p \o <<39>>
ListRepr(items) ==
    <<91>> \o Join(Eager([i \in 1..Len(items) |-> Quoted(items[i])]), <<44, 32>>) \o <<93>>

\* the name of a check as text
NameText(name) ==
    CASE name = "direct_answer" -> <<100, 105, 114, 101, 99, 116, 95, 97, 110, 115, 119, 101, 114>>
      [] name = "definition" -> <<100, 101, 102, 105, 110, 105, 116, 105, 111, 110>>
      [] name = "headings" -> <<104, 101, 97, 100, 105, 110, 103, 115>>
      [] name = "facts" -> <<102, 97, 99, 116, 115>>
      [] name = "sources" -> <<115, 111, 117, 114, 99, 101, 115>>
      [] name = "faq" -> <<102, 97, 113>>
      [] name = "lists" -> <<108, 105, 115, 116, 115>>
      [] name = "tables" -> <<116, 97, 98, 108, 101, 115>>
      [] name = "word_count_ok" -> <<119, 111, 114, 100, 95, 99, 111, 117, 110, 116, 95, 111, 107>>
      [] name = "meta_ok" -> <<109, 101, 116, 97, 95, 111, 107>>

\* a message is its literal pieces, each followed by the value formatted into
\* it (none after the last)
Part(lit, hole) == [lit |-> lit, hole |-> hole]

MessageParts(msg) ==
    CASE msg = "Odstranit nechcene frazy ({found})." ->
        \* 'Odstr\xe1ni\u0165 nechcen\xe9 fr\xe1zy ({found}).'
        << Part(<<79, 100, 115, 116, 114, 225, 110, 105, 357, 32, 110, 101, 99, 104, 99, 101, 110, 233, 32, 102, 114, 225, 122, 121, 32, 40>>, "found"),
           Part(<<41, 46>>, "") >>
      [] msg = "Pridat priamu definiciu hlavneho pojmu." ->
        \* 'Prida\u0165 priamu defin\xedciu hlavn\xe9ho pojmu.'
        << Part(<<80, 114, 105, 100, 97, 357, 32, 112, 114, 105, 97, 109, 117, 32, 100, 101, 102, 105, 110, 237, 99, 105, 117, 32, 104, 108, 97, 118, 110, 233, 104, 111, 32, 112, 111, 106, 109, 117, 46>>, "") >>
      [] msg = "Pridat nadpisy h2 v pocte aspon {num}." ->
        \* 'Prida\u0165 nadpisy h2 v po\u010dte aspo\u0148 {num}.'
        << Part(<<80, 114, 105, 100, 97, 357, 32, 110, 97, 100, 112, 105, 115, 121, 32, 104, 50, 32, 118, 32, 112, 111, 269, 116, 101, 32, 97, 115, 112, 111, 328, 32>>, "num"),
           Part(<<46>>, "") >>
      [] msg = "Pridat ciselne udaje s jednotkami v pocte aspon {num}." ->
        \* 'Prida\u0165 \u010d\xedseln\xe9 \xfadaje s jednotkami v po\u010dte aspo\u0148 {num}.'
        << Part(<<80, 114, 105, 100, 97, 357, 32, 269, 237, 115, 101, 108, 110, 233, 32, 250, 100, 97, 106, 101, 32, 115, 32, 106, 101, 100, 110, 111, 116, 107, 97, 109, 105, 32, 118, 32, 112, 111, 269, 116, 101, 32, 97, 115, 112, 111, 328, 32>>, "num"),
           Part(<<46>>, "") >>
      [] msg = "Pridat F&Q sekciu." ->
        \* 'Prida\u0165 F&Q sekciu.'
        << Part(<<80, 114, 105, 100, 97, 357, 32, 70, 38, 81, 32, 115, 101, 107, 99, 105, 117, 46>>, "") >>
      [] msg = "Pridat aspon 1 odrazkovy alebo ocislovany zoznam." ->
        \* 'Prida\u0165 aspo\u0148 1 odr\xe1\u017ekov\xfd alebo o\u010d\xedslovan\xfd zoznam.'
        << Part(<<80, 114, 105, 100, 97, 357, 32, 97, 115, 112, 111, 328, 32, 49, 32, 111, 100, 114, 225, 382, 107, 111, 118, 253, 32, 97, 108, 101, 98, 111, 32, 111, 269, 237, 115, 108, 111, 118, 97, 110, 253, 32, 122, 111, 122, 110, 97, 109, 46>>, "") >>
      [] msg = "Pridat aspon 1 tabulku." ->
        \* 'Prida\u0165 aspo\u0148 1 tabu\u013eku.'
        << Part(<<80, 114, 105, 100, 97, 357, 32, 97, 115, 112, 111, 328, 32, 49, 32, 116, 97, 98, 117, 318, 107, 117, 46>>, "") >>
      [] msg = "Clanok nie je dostatocne dlhy, pridat aspon {num} slov{suffix}." ->
        \* '\u010cl\xe1nok nie je dostato\u010dne dlh\xfd, prida\u0165 aspo\u0148 {num} slov{suffix}.'
        << Part(<<268, 108, 225, 110, 111, 107, 32, 110, 105, 101, 32, 106, 101, 32, 100, 111, 115, 116, 97, 116, 111, 269, 110, 101, 32, 100, 108, 104, 253, 44, 32, 112, 114, 105, 100, 97, 357, 32, 97, 115, 112, 111, 328, 32>>, "num"),
           Part(<<32, 115, 108, 111, 118>>, "suffix"),
           Part(<<46>>, "") >>
      [] msg = "Meta popis je prikratky, pridat aspon {num} slov{suffix}." ->
        \* 'Meta popis je prikr\xe1tky, prida\u0165 aspo\u0148 {num} slov{suffix}.'
        << Part(<<77, 101, 116, 97, 32, 112, 111, 112, 105, 115, 32, 106, 101, 32, 112, 114, 105, 107, 114, 225, 116, 107, 121, 44, 32, 112, 114, 105, 100, 97, 357, 32, 97, 115, 112, 111, 328, 32>>, "num"),
           Part(<<32, 115, 108, 111, 118>>, "suffix"),
           Part(<<46>>, "") >>
      [] msg = "Meta popis je pridlhy, ubrat aspon {num} slov{suffix}." ->
        \* 'Meta popis je pridlh\xfd, ubra\u0165 aspo\u0148 {num} slov{suffix}.'
        << Part(<<77, 101, 116, 97, 32, 112, 111, 112, 105, 115, 32, 106, 101, 32, 112, 114, 105, 100, 108, 104, 253, 44, 32, 117, 98, 114, 97, 357, 32, 97, 115, 112, 111, 328, 32>>, "num"),
           Part(<<32, 115, 108, 111, 118>>, "suffix"),
           Part(<<46>>, "") >>
      [] msg = "Analyza '{name}' zlyhala kvoli chybe." ->
        \* "Anal\xfdza '{name}' zlyhala kv\xf4li chybe."
        << Part(<<65, 110, 97, 108, 253, 122, 97, 32, 39>>, "name"),
           Part(<<39, 32, 122, 108, 121, 104, 97, 108, 97, 32, 107, 118, 244, 108, 105, 32, 99, 104, 121, 98, 101, 46>>, "") >>
      [] msg = "Pridat sekciu Zdroje." ->
        \* 'Prida\u0165 sekciu "Zdroje".'
        << Part(<<80, 114, 105, 100, 97, 357, 32, 115, 101, 107, 99, 105, 117, 32, 34, 90, 100, 114, 111, 106, 101, 34, 46>>, "") >>

\* the f-string evaluated
RECURSIVE RenderParts(_, _)
RenderParts(parts, rec) ==
    IF Len(parts) = 0 THEN <<>>
    ELSE LET p == parts[1]
             value == CASE p.hole = "" -> <<>>
                        [] p.hole = "num" -> Decimal(rec.num)
                        [] p.hole = "suffix" -> rec.suffix
                        [] p.hole = "name" -> NameText(rec.name)
                        [] p.hole = "found" -> ListRepr(rec.found)
         IN  p.lit \o value \o RenderParts(Tail(parts), rec)

RecText(rec) == IF rec.msg = "" THEN <<>> ELSE RenderParts(MessageParts(rec.msg), rec)

\* s.split(sep) for a one-character sep
Split(s, sep) ==
    LET Is(i) == s[i] = sep
        at == SelectSeq(Eager([i \in 1..Len(s) |-> i]), Is)
        cut == <<0>> \o at \o <<Len(s) + 1>>
    IN  Eager([k \in 1..(Len(cut) - 1) |-> SubSeq(s, cut[k] + 1, cut[k + 1] - 1)])

(***************************************************************************)
(* The Reporter                                                            *)
(***************************************************************************)

DictHas(d, key) == \E i \in 1..Len(d) : d[i].key = key

\* d.get(key, default)
DictGet(d, key, default) ==
    IF DictHas(d, key)
    THEN d[CHOOSE i \in 1..Len(d) : d[i].key = key].value
    ELSE default

KV(key, value) == [key |-> key, value |-> value]

\* the dict analyze() returns, its recommendations as the texts they are
ResultDict(r) ==
    << KV("url", r.url),
       KV("title", r.title),
       KV("score", r.score),
       KV("report", r.report),
       KV("recommendations",
          Eager([i \in 1..Len(r.recommendations) |-> RecText(r.recommendations[i])])) >>

\* the recommendations joined with a slash
RowRecommendations_Slash(recs) == Join(recs, <<32, 47, 32>>)

\* " | ".join(recs)
RowRecommendations(recs) == Join(recs, <<32, 124, 32>>)

\* the row with no default for a missing score
RowOf_ScoreFromReport(result) ==
    LET report == DictGet(result, "report", <<>>)
        recs == DictGet(result, "recommendations", <<>>)
        row == Eager([i \in 1..Len(report) |->
                         KV(report[i].key, IF report[i].value THEN 1 ELSE 0)])
        counted == Cardinality({i \in 1..Len(report) : report[i].value})
    IN  DictSet(DictSet(DictSet(DictSet(row,
            "url", DictGet(result, "url", <<>>)),
            "title", DictGet(result, "title", <<>>)),
            "score", DictGet(result, "score", counted)),
            "recommendations", RowRecommendations(recs))

\* the row add_article builds from `result`, the dict left by `analyze() or {}`
RowOf(result) ==
    LET report == DictGet(result, "report", <<>>)
        recs == DictGet(result, "recommendations", <<>>)
        row == Eager([i \in 1..Len(report) |->
                         KV(report[i].key, IF report[i].value THEN 1 ELSE 0)])
    IN  DictSet(DictSet(DictSet(DictSet(row,
            "url", DictGet(result, "url", <<>>)),
            "title", DictGet(result, "title", <<>>)),
            "score", DictGet(result, "score", 0)),
            "recommendations", RowRecommendations(recs))

\* rec_items of _render_cards for a row
NotBlank(s) == Len(Strip(s)) > 0
RecItems(row) ==
    LET recs_raw == Strip(DictGet(row, "recommendations", <<>>))
        kept == SelectSeq(Split(recs_raw, 124), NotBlank)
    IN  Eager([i \in 1..Len(kept) |-> Strip(kept[i])])

\* what analyze() returned to add_article: nothing (it raised), None, or a dict
Returned(d) == [kind |-> "dict", dict |-> d]
ReturnedNone == [kind |-> "None", dict |-> <<>>]
NoResult == [kind |-> "raised", dict |-> <<>>]

MaxRows == 2
MaxBatch == 2
MaxReports == 2

\* reporter.add_article(article) for the Article of the state
AddArticle ==
    /\ constructed
    /\ reports < MaxRows
    /\ LET acc == RunSteps(Self, Acc, 1)
           result == ResultDict(ResultOf(Self, acc))
       IN  /\ Store(acc)
           /\ results' = IF acc.raised THEN results ELSE Append(results, ResultOf(Self, acc))
           /\ rows' = IF acc.raised THEN rows ELSE Append(rows, RowOf(result))
           /\ report_args' = [op |-> "add_article",
                              result |-> IF acc.raised THEN NoResult ELSE Returned(result)]
    /\ reports' = reports + 1
    /\ UNCHANGED << fieldVars, faulty, warn_filter, utilVars, normVars, columns, exports,
                    templateVars >>

\* reporter.add_article(stub), where stub.analyze() returns `result`
AddStub(result) ==
    /\ reports < MaxRows
    /\ rows' = Append(rows, RowOf(result.dict))
    /\ report_args' = [op |-> "add_article", result |-> result]
    /\ reports' = reports + 1
    /\ raised' = FALSE
    /\ UNCHANGED << fieldVars, score, points, recommendations, faulty, warn_filter,
                    registry, shown, results, calls, utilVars, normVars, columns,
                    exports, templateVars >>

\* the loop of do_report from post k on; st holds the rows, the warnings
\* state and whether an exception has left the loop
RECURSIVE AddPosts(_, _, _)
AddPosts(st, posts, k) ==
    IF k > Len(posts) \/ st.raised THEN st
    ELSE LET a == ArticleInit(posts[k])
             fresh == [score |-> 0, points |-> <<>>, recommendations |-> <<>>,
                       registry |-> st.registry, shown |-> st.shown, raised |-> FALSE]
         IN  IF a.raises THEN [st EXCEPT !.raised = TRUE]
             ELSE LET acc == RunSteps(a, fresh, 1)
                      next == [rows |-> IF acc.raised THEN st.rows
                                        ELSE Append(st.rows,
                                                    RowOf(ResultDict(ResultOf(a, acc)))),
                               registry |-> acc.registry,
                               shown |-> acc.shown,
                               raised |-> acc.raised]
                  IN  AddPosts(next, posts, k + 1)

\* the files export_csv and export_html write, each with the rows in it
Written(report_to_csv, report_to_html, rs) ==
    (IF report_to_csv THEN << [kind |-> "csv", rows |-> rs] >> ELSE <<>>)
    \o (IF report_to_html THEN << [kind |-> "html", rows |-> rs] >> ELSE <<>>)

\* reporter.do_report(posts, report_to_csv, report_to_html)
DoReport(posts, report_to_csv, report_to_html) ==
    /\ reports < MaxReports
    /\ LET st == AddPosts([rows |-> rows, registry |-> registry, shown |-> shown,
                           raised |-> FALSE], posts, 1)
       IN  /\ rows' = st.rows
           /\ registry' = st.registry
           /\ shown' = st.shown
           /\ raised' = st.raised
           /\ exports' = IF st.raised THEN exports
                         ELSE exports \o Written(report_to_csv, report_to_html, st.rows)
    /\ reports' = reports + 1
    /\ report_args' = [op |-> "do_report", posts |-> posts,
                       report_to_csv |-> report_to_csv, report_to_html |-> report_to_html]
    /\ UNCHANGED << fieldVars, score, points, recommendations, faulty, warn_filter,
                    results, calls, utilVars, normVars, columns, templateVars >>

(***************************************************************************)
(* Articles added to a Reporter one by one                                 *)
(***************************************************************************)

RowPosts == FixedPosts \cup HeadingPosts \cup {MetaPost(n, FALSE) : n \in 0..MaxMetaLen}

InitRows ==
    /\ \E post \in RowPosts : Construct(post)
    /\ faulty \in {F \in SUBSET CheckNames : Cardinality(F) <= 1}
    /\ warn_filter \in {"default", "error"}
    /\ NoUtil
    /\ NoNorm
    /\ ReporterInit
    /\ NoTemplate

NextRows == AddArticle

SpecRows == InitRows /\ [][NextRows]_vars

(***************************************************************************)
(* Results of any shape added to a Reporter                                *)
(***************************************************************************)

\* a complete result, as the stub of the reporter tests returns it
StubResult ==
    << KV("url", <<117>>),
       KV("title", <<84>>),
       KV("score", 3),
       KV("report", << KV("direct_answer", TRUE), KV("facts", FALSE) >>),
       KV("recommendations", << <<70, 105, 120, 32, 88>>, <<70, 105, 120, 32, 89>> >>) >>  \* 'Fix X', 'Fix Y'

\* the result with only some of its keys
Keep(K) == LET In(e) == e.key \in K IN SelectSeq(StubResult, In)

StubResults ==
    {ReturnedNone}
    \cup {Returned(Keep(K)) : K \in SUBSET {"url", "title", "score", "report", "recommendations"}}

InitStubs ==
    /\ Construct(PostFiller)
    /\ faulty = {}
    /\ warn_filter = "default"
    /\ NoUtil
    /\ NoNorm
    /\ ReporterInit
    /\ NoTemplate

NextStubs == \E result \in StubResults : AddStub(result)

SpecStubs == InitStubs /\ [][NextStubs]_vars

(***************************************************************************)
(* Batches of posts reported                                               *)
(***************************************************************************)

\* a short post: one paragraph, an empty meta description
PostShort ==
    [title |-> T_Test, content |-> << El("p", 0), Tx(T_A, 1) >>, description |-> <<>>,
     link |-> <<117, 49, 50>>]

BatchPosts == { PostShort, PostNull, PostNoContent }

Batches == UNION { [1..n -> BatchPosts] : n \in 0..MaxBatch }

InitReport ==
    /\ Construct(PostFiller)
    /\ faulty = {}
    /\ warn_filter \in WarnActions
    /\ NoUtil
    /\ NoNorm
    /\ ReporterInit
    /\ NoTemplate

NextReport ==
    \E posts \in Batches, report_to_csv \in BOOLEAN, report_to_html \in BOOLEAN :
        DoReport(posts, report_to_csv, report_to_html)

SpecReport == InitReport /\ [][NextReport]_vars

(***************************************************************************)
(* reporter_utils.fill_template                                            *)
(***************************************************************************)

\* s.replace(old, new) for a non-empty old: the occurrences of old, taken
\* from the left and not overlapping, each become new
RECURSIVE ReplaceFrom(_, _, _, _)
ReplaceFrom(s, old, new, i) ==
    IF i > Len(s) THEN <<>>
    ELSE IF StartsAt(s, i, old) THEN new \o ReplaceFrom(s, old, new, i + Len(old))
    ELSE <<s[i]>> \o ReplaceFrom(s, old, new, i + 1)

Replace(s, old, new) == ReplaceFrom(s, old, new, 1)

\* f"{{{{{k}}}}}": k between two pairs of braces
Placeholder(k) == <<123, 123>> \o k \o <<125, 125>>

\* a ctx value: a str, an int or None
StrValue(text) == [type |-> "str", text |-> text, n |-> 0]
IntValue(n) == [type |-> "int", text |-> <<>>, n |-> n]
NoneValue == [type |-> "None", text |-> <<>>, n |-> 0]

\* the loop of fill_template over the ctx entries from k on; replace raises
\* TypeError when its second argument is not a str
RECURSIVE FillFrom(_, _, _)
FillFrom(text, entries, k) ==
    IF k > Len(entries) THEN [raises |-> FALSE, text |-> text]
    ELSE IF entries[k].value.type # "str" THEN [raises |-> TRUE, text |-> text]
    ELSE FillFrom(Replace(text, Placeholder(entries[k].key), entries[k].value.text),
                  entries, k + 1)

fill_template(text, entries) == FillFrom(text, entries, 1)

MaxParts == 3

NAME == <<78, 65, 77, 69>>          \* 'NAME'
SCORE == <<83, 67, 79, 82, 69>>     \* 'SCORE'

\* the pieces templates are made of
TemplateParts ==
    { <<72, 105, 32>>,              \* 'Hi '
      Placeholder(NAME),
      Placeholder(SCORE) }

Templates ==
    { Join(parts, <<>>) : parts \in UNION { [1..n -> TemplateParts] : n \in 0..MaxParts } }

\* the values of a ctx
CtxValues ==
    { StrValue(<<87, 111, 114, 108, 100>>),             \* 'World'
      StrValue(<<>>),
      StrValue(<<60>> \o Placeholder(SCORE) \o <<62>>), \* '<{{SCORE}}>'
      StrValue(Placeholder(NAME)),                      \* '{{NAME}}'
      IntValue(10),
      NoneValue }

\* the dicts over NAME and SCORE, in either insertion order
Ctxs ==
    {<<>>}
    \cup { <<KV(k, v)>> : k \in {NAME, SCORE}, v \in CtxValues }
    \cup { <<KV(NAME, v), KV(SCORE, w)>> : v \in CtxValues, w \in CtxValues }
    \cup { <<KV(SCORE, w), KV(NAME, v)>> : v \in CtxValues, w \in CtxValues }

\* fill_template(template, ctx)
Fill ==
    /\ filled = None
    /\ ~raised
    /\ LET out == fill_template(template, ctx)
       IN  /\ raised' = out.raises
           /\ filled' = IF out.raises THEN None ELSE out.text
    /\ UNCHANGED << fieldVars, score, points, recommendations, faulty, warn_filter,
                    registry, shown, results, calls, utilVars, normVars, reporterVars,
                    template, ctx >>

InitTemplate ==
    /\ Construct(PostFiller)
    /\ faulty = {}
    /\ warn_filter = "default"
    /\ NoUtil
    /\ NoNorm
    /\ ReporterInit
    /\ template \in Templates
    /\ ctx \in Ctxs
    /\ filled = None

NextTemplate == Fill

SpecTemplate == InitTemplate /\ [][NextTemplate]_vars

(***************************************************************************)
(* Properties                                                              *)
(***************************************************************************)

CountTrue(d) == Cardinality({i \in 1..Len(d) : d[i].value})
CountFalse(d) == Cardinality({i \in 1..Len(d) : ~d[i].value})

IsNotTrue(entry) == ~entry.value

\* the checks that raise when analyze() runs them on this Article
Raising == {name \in CheckNames : name \in faulty \/ CheckRaises(Self, name)}

\* the recommendation analyze() records for a check that does not pass
ExpectedRecommendation(name) ==
    IF name \in Raising THEN SyntheticRecommendation(name)
    ELSE CheckRecommendation(Self, name, DefaultArgs)

\* C1: the first analyze() on a fresh Article returns; the report it returns
\* has exactly the ten keys direct_answer .. meta_ok in that order, and the
\* score is the number of True values in it (between 0 and 10), whichever
\* checks raise.
C1_ReportShape ==
    calls = 1 =>
        /\ ~raised
        /\ Len(results) = 1
        /\ DictKeys(results[1].report) = ANALYZE_STEPS
        /\ results[1].score = CountTrue(results[1].report)
        /\ results[1].score \in 0..10

\* C2: after the first analyze() on a fresh Article there are as many
\* recommendations as report entries that are not True, and the i-th
\* recommendation is the one of the i-th such check in the evaluation order;
\* the returned dict holds the same report and recommendations.
C2_Recommendations ==
    calls = 1 =>
        LET failed == SelectSeq(points, IsNotTrue)
        IN  /\ DictKeys(points) = SubSeq(ANALYZE_STEPS, 1, Len(points))
            /\ Len(recommendations) = Len(failed)
            /\ \A i \in 1..Len(failed) :
                   recommendations[i] = ExpectedRecommendation(failed[i].key)
            /\ ~raised => /\ Len(results) = 1
                          /\ results[1].report = points
                          /\ results[1].recommendations = recommendations

\* analyze() returned on the Slovak scenario with the headings check
\* raising: four checks failed, one errored, five passed
C2_Witness ==
    /\ calls = 1
    /\ ~raised
    /\ title = PostKreatin.title
    /\ faulty = {"headings"}
    /\ Len(recommendations) = 5
    /\ score = 5

\* C3: when exactly one check raises during analyze(), analyze() does not
\* raise; the report has all ten entries, the raising check is False with
\* the synthetic recommendation naming it, and every other check has the
\* outcome it has on its own.
C3_Isolation ==
    calls = 1 /\ Cardinality(Raising) = 1 =>
        /\ ~raised
        /\ DictKeys(points) = ANALYZE_STEPS
        /\ \A i \in 1..Len(points) :
               points[i].value = IF points[i].key \in Raising THEN FALSE
                                 ELSE CheckPassed(Self, points[i].key, DefaultArgs)
        /\ \A name \in Raising :
               \E i \in 1..Len(recommendations) :
                   recommendations[i] = SyntheticRecommendation(name)

\* C4: the second analyze() on the same Article returns what the first one
\* returned: the same score, report and recommendations.
C4_Idempotent == Len(results) >= 2 => results[2] = results[1]

\* C5: after any sequence of calls of the checks, _run_analysis_step and
\* analyze() on one Article, score is the number of True values in points
\* and there are as many recommendations as False values in points.
C5_ScoreCountsPoints ==
    /\ score = CountTrue(points)
    /\ Len(recommendations) = CountFalse(points)

\* the Article of the end-to-end scenario, no check replaced
IsCreatine ==
    /\ title = PostCreatine.title
    /\ content_html = PostCreatine.content
    /\ meta_description = PostCreatine.description
    /\ faulty = {}

Entry(key, value) == [key |-> key, value |-> value]

\* C6 as stated: on the English scenario analyze() reports definition,
\* headings, lists, tables, meta_ok and direct_answer True, facts, sources,
\* faq and word_count_ok False, score 6 and four recommendations.
C6_ScenarioAsStated ==
    IsCreatine /\ calls = 1 =>
        /\ Len(results) = 1
        /\ results[1].report =
               << Entry("direct_answer", TRUE), Entry("definition", TRUE),
                  Entry("headings", TRUE), Entry("facts", FALSE),
                  Entry("sources", FALSE), Entry("faq", FALSE),
                  Entry("lists", TRUE), Entry("tables", TRUE),
                  Entry("word_count_ok", FALSE), Entry("meta_ok", TRUE) >>
        /\ results[1].score = 6
        /\ Len(results[1].recommendations) = 4

\* C6 amended: on the English scenario analyze() reports headings, lists,
\* tables, meta_ok and direct_answer True, definition, facts, sources, faq
\* and word_count_ok False, score 5 and five recommendations.
C6_ScenarioAmended ==
    IsCreatine /\ calls = 1 =>
        /\ Len(results) = 1
        /\ results[1].report =
               << Entry("direct_answer", TRUE), Entry("definition", FALSE),
                  Entry("headings", TRUE), Entry("facts", FALSE),
                  Entry("sources", FALSE), Entry("faq", FALSE),
                  Entry("lists", TRUE), Entry("tables", TRUE),
                  Entry("word_count_ok", FALSE), Entry("meta_ok", TRUE) >>
        /\ results[1].score = 5
        /\ Len(results[1].recommendations) = 5

\* analyze() has returned on the English scenario
C6_Witness == IsCreatine /\ calls = 1 /\ Len(results) = 1 /\ ~raised

\* C7: inflection(N) is "o" for N = 1, the single character U+00E1 for N in
\* 2..4 and the empty string for every other integer.
C7_Inflection ==
    suffix # None =>
        suffix = IF num = 1 THEN <<111>>
                 ELSE IF num \in 2..4 THEN <<225>>
                 ELSE <<>>

\* the length of the whitespace-trimmed meta description
TrimmedMetaLength == Len(Strip(meta_description))

\* C8: analyze_meta_ok(min_len, max_len) passes exactly when
\* min_len <= L <= max_len, L the length of the trimmed meta description
\* (by default 119 fails, 120 and 160 pass, 161 fails); when it fails it
\* appends a non-empty recommendation, the too-short message with
\* min_len - L when L < min_len and otherwise the too-long message with
\* L - max_len, and the number stated is at least 1.
C8_MetaOk ==
    [][\A args \in CheckArgs :
          meta_description # None /\ CallCheck("meta_ok", args, 1) =>
              LET L == TrimmedMetaLength
                  ok == args.min_len <= L /\ L <= args.max_len
                  r == recommendations'[Len(recommendations')]
              IN  /\ points' = DictSet(points, "meta_ok", ok)
                  /\ args = DefaultArgs /\ L \in {120, 160} => ok
                  /\ args = DefaultArgs /\ L \in {119, 161} => ~ok
                  /\ ok => recommendations' = recommendations
                  /\ ~ok => /\ Len(recommendations') = Len(recommendations) + 1
                            /\ r.msg # ""
                            /\ r.num >= 1
                            /\ r.suffix = inflection(r.num)
                            /\ IF L < args.min_len
                               THEN /\ r.msg = "Meta popis je prikratky, pridat aspon {num} slov{suffix}."
                                    /\ r.num = args.min_len - L
                               ELSE /\ r.msg = "Meta popis je pridlhy, ubrat aspon {num} slov{suffix}."
                                    /\ r.num = L - args.max_len
      ]_vars

\* analyze_meta_ok() has failed on a padded description of 119 characters,
\* asking for one more
C8_Witness ==
    /\ calls = 1
    /\ DictKeys(points) = <<"meta_ok">>
    /\ TrimmedMetaLength = 119
    /\ Len(meta_description) > 119
    /\ ~points[1].value
    /\ Len(recommendations) = 1
    /\ recommendations[1].num = 1

\* the number of h2 elements in the article HTML
H2Elements == Cardinality({i \in 1..Len(content_html) : content_html[i].tag = "h2"})

\* C9: analyze_headings passes exactly when the article HTML has at least
\* three h2 elements; when it fails with c of them, the recommendation it
\* records states 3 - c, which is at least 1.
C9_Headings ==
    [][\A args \in CheckArgs :
          CallCheck("headings", args, 1) =>
              LET c == H2Elements
              IN  /\ points' = DictSet(points, "headings", c >= 3)
                  /\ c >= 3 => recommendations' = recommendations
                  /\ c < 3 =>
                        /\ recommendations' =
                               Append(recommendations,
                                      Rec("Pridat nadpisy h2 v pocte aspon {num}.", "",
                                          3 - c, <<>>, <<>>))
                        /\ 3 - c >= 1
      ]_vars

\* analyze_headings() has failed on an article with exactly two h2 elements,
\* asking for one more
C9_Witness ==
    /\ calls = 1
    /\ DictKeys(points) = <<"headings">>
    /\ H2Elements = 2
    /\ ~points[1].value
    /\ recommendations[1].num = 1

\* text node i of the tree lies inside an element with one of the tags
InsideTags(nodes, i, tags) ==
    \E r \in 1..Len(nodes) : nodes[r].tag \in tags /\ InSubtree(nodes, i, r)

\* text node i lies inside the subtree of r (0: there is no such subtree)
InsideNode(nodes, i, r) == r # 0 /\ InSubtree(nodes, i, r)

FirstWithTocId(nodes) ==
    FirstOf({r \in 1..Len(nodes) : nodes[r].tag # "#text" /\ nodes[r].id = TOC_ID})

FirstDivWithTocId(nodes) ==
    FirstOf({r \in 1..Len(nodes) : nodes[r].tag = "div" /\ nodes[r].id = TOC_ID})

TextNodes(nodes) == {i \in 1..Len(nodes) : nodes[i].tag = "#text"}

\* neither the clean text nor the first paragraph holds the text of node i
Absent(i) ==
    /\ ~Contains(normalized.clean, html[i].text)
    /\ ~Contains(normalized.first, html[i].text)

\* C10 as stated: the clean text and the first paragraph of a content tree
\* hold no text from inside a script, style or noscript element, and none
\* from inside the first element whose id is 'ez-toc-container', whatever
\* its tag.
C10_AsStated ==
    normalized # NotNormalized =>
        \A i \in TextNodes(html) :
            (\/ InsideTags(html, i, REMOVED_TAGS)
             \/ InsideNode(html, i, FirstWithTocId(html)))
                => Absent(i)

\* C10 amended: the clean text and the first paragraph of a content tree
\* hold no text from inside a script, style or noscript element, and none
\* from inside the first div element whose id is 'ez-toc-container'.
C10_Amended ==
    normalized # NotNormalized =>
        \A i \in TextNodes(html) :
            (\/ InsideTags(html, i, REMOVED_TAGS)
             \/ InsideNode(html, i, FirstDivWithTocId(html)))
                => Absent(i)

\* a paragraph followed by a table-of-contents div has been normalized: the
\* paragraph's text is kept, the table of contents is not
C10_Witness ==
    /\ normalized # NotNormalized
    /\ Len(html) = 4
    /\ html[1].tag = "p"
    /\ FirstDivWithTocId(html) = 3
    /\ normalized.clean = html[2].text
    /\ normalized.first = html[2].text

\* the keyword of the title: the text before the first ':', trimmed
KeywordOfTitle ==
    LET first == CHOOSE i \in 1..Len(title) :
                     title[i] = 58 /\ \A j \in 1..(i - 1) : title[j] # 58
    IN  Strip(SubSeq(title, 1, first - 1))

StockKeyword == <<102, 105, 116, 110, 101, 115, 115, 32, 114, 101, 99, 101, 112, 116>>  \* 'fitness recept'

\* (a) the lower-cased text of the table of contents holds a 'what is' marker
DefinedInToc ==
    LET toc == FirstDivWithTocId(content_html)
        toc_text == Lower(GetText(ParseHtml(content_html), toc, <<32>>, TRUE))
    IN  /\ toc # 0
        /\ \/ Contains(toc_text, <<269, 111, 32, 106, 101>>)      \* '\u010do je'
           \/ Contains(toc_text, <<269, 111, 32, 115, 250>>)      \* '\u010do s\xfa'

\* (b) the title names a keyword of one or two words, not the stock phrase,
\* and the lower-cased clean text holds it followed by a space and a verb
DefinedByTitle ==
    /\ \E i \in 1..Len(title) : title[i] = 58
    /\ KeywordOfTitle # <<>>
    /\ SplitCount(KeywordOfTitle) <= 2
    /\ Lower(KeywordOfTitle) # StockKeyword
    /\ \E verb \in { <<106, 101>>, <<115, 250>>,                 \* 'je', 's\xfa'
                     <<122, 110, 97, 109, 101, 110, 225>>,       \* 'znamen\xe1'
                     <<112, 114, 101, 100, 115, 116, 97, 118, 117, 106, 101>> } : \* 'predstavuje'
           Contains(Lower(content_clean), Lower(KeywordOfTitle) \o <<32>> \o verb)

\* C11: analyze_definition passes exactly when (a) the table of contents
\* holds a 'what is' marker or (b) the title's keyword, of at most two
\* words, is followed in the clean text by a space and a definition verb; a
\* title whose keyword is 'fitness recept' in any case never passes via (b).
C11_Definition ==
    [][\A args \in CheckArgs :
          CallCheck("definition", args, 1) =>
              /\ points' = DictSet(points, "definition", DefinedInToc \/ DefinedByTitle)
              /\ score' = score + (IF DefinedInToc \/ DefinedByTitle THEN 1 ELSE 0)
      ]_vars

\* analyze_definition() has failed on a title with the stock keyword in
\* capitals although the text defines it
C11_Witness ==
    /\ calls = 1
    /\ DictKeys(points) = <<"definition">>
    /\ title = <<70, 73, 84, 78, 69, 83, 83, 32, 82, 69, 67, 69, 80, 84, 58, 32, 120>>
    /\ Contains(Lower(content_clean), StockKeyword \o <<32, 106, 101>>)
    /\ ~points[1].value

\* C12: a post whose content.rendered is missing (no 'content' key, or no
\* 'rendered' key inside it) or null is treated as having empty HTML:
\* Article(post) does not raise, content_html is the empty string, and a call
\* of analyze() that returns has returned a report of ten entries
C12_MissingContent ==
    content_rendered # "html" =>
        /\ constructed
        /\ ~(calls = 0 /\ raised)
        /\ content_html = <<>>
        /\ (calls >= 1 /\ ~raised => Len(results[Len(results)].report) = Len(ANALYZE_STEPS))

\* do_report on a new Reporter with the one post, nothing warned about so far
Alone(post) ==
    AddPosts([rows |-> <<>>, registry |-> {}, shown |-> <<>>, raised |-> FALSE],
             <<post>>, 1)

\* the rows of the posts of a batch that can be constructed and analysed
RECURSIVE RowsOfSound(_)
RowsOfSound(posts) ==
    IF Len(posts) = 0 THEN <<>>
    ELSE (IF Alone(posts[1]).raised THEN <<>> ELSE Alone(posts[1]).rows)
         \o RowsOfSound(Tail(posts))

\* C13: a failure local to one post never escalates to the batch: whether or
\* not constructing or analysing a post of the batch raises, do_report(posts)
\* does not raise, adds a row for every post that can be constructed and
\* analysed, in order, and writes every export asked for.
C13_BatchIsolation ==
    [][report_args'.op = "do_report" /\ reports' = reports + 1 =>
          /\ ~raised'
          /\ rows' = rows \o RowsOfSound(report_args'.posts)
          /\ exports' = exports \o Written(report_args'.report_to_csv,
                                           report_args'.report_to_html, rows')
      ]_vars

\* C14: batch independence and order: after do_report(posts) on a newly
\* constructed Reporter, rows has exactly len(posts) entries and rows[i] is
\* the row obtained by reporting posts[i] alone on a new Reporter.
C14_BatchIndependence ==
    [][report_args'.op = "do_report" /\ reports = 0 /\ reports' = 1 =>
          /\ Len(rows') = Len(report_args'.posts)
          /\ \A i \in 1..Len(rows') : Alone(report_args'.posts[i]).rows = << rows'[i] >>
      ]_vars

\* C15: add_article appends exactly one row per call and does not raise
\* because of a missing result field: when analyze() returns None, an empty
\* dict, or a dict lacking url, title, score, report or recommendations, the
\* row has url = '', title = '', score = 0, recommendations = '' for the
\* missing ones, the value returned for url, title and score that are there,
\* and one column per report entry, 1 for True and 0 for False.
C15_AddArticleDefaults ==
    [][report_args'.op = "add_article" /\ reports' = reports + 1 =>
          LET d == report_args'.result.dict
              row == rows'[Len(rows')]
              report == DictGet(d, "report", <<>>)
              Defaulted(key, default) ==
                  /\ DictHas(row, key)
                  /\ DictGet(row, key, default) = DictGet(d, key, default)
          IN  /\ ~raised'
              /\ Len(rows') = Len(rows) + 1
              /\ SubSeq(rows', 1, Len(rows)) = rows
              /\ Defaulted("url", <<>>)
              /\ Defaulted("title", <<>>)
              /\ Defaulted("score", 0)
              /\ DictHas(row, "recommendations")
              /\ (~DictHas(d, "recommendations") =>
                      DictGet(row, "recommendations", <<>>) = <<>>)
              /\ \A i \in 1..Len(report) :
                     DictGet(row, report[i].key, 2) = (IF report[i].value THEN 1 ELSE 0)
              /\ Len(row) = Len(report) + 4
      ]_vars

\* a second row was added from a result that has a report and nothing else
C15_Witness ==
    /\ reports = 2
    /\ Len(rows) = 2
    /\ report_args = [op |-> "add_article", result |-> Returned(Keep({"report"}))]
    /\ DictGet(rows[2], "direct_answer", 2) = 1
    /\ DictGet(rows[2], "facts", 2) = 0
    /\ DictGet(rows[2], "score", 2) = 0
    /\ DictGet(rows[2], "url", <<1>>) = <<>>

\* C16: the report column set is stable: Reporter.columns is always url,
\* title, score, the ten check keys, recommendations, in that order; the ten
\* check keys are the names, in the same order, under which analyze()
\* records its checks; so the columns of the row of an analysed article
\* that come from its report are exactly the ten check keys, in order.
C16_Columns ==
    /\ columns = <<"url", "title", "score">> \o ANALYZE_STEPS \o <<"recommendations">>
    /\ POINT_COLS = ANALYZE_STEPS
    /\ \A i \in 1..Len(rows) :
           DictKeys(rows[i]) = POINT_COLS \o <<"url", "title", "score", "recommendations">>

\* two rows of an article whose headings check raises, the second from
\* analysing it again
C16_Witness ==
    /\ Len(rows) = 2
    /\ faulty = {"headings"}
    /\ DictGet(rows[1], "headings", 2) = 0
    /\ DictGet(rows[2], "headings", 2) = 0
    /\ \E i \in 1..Len(POINT_COLS) : DictGet(rows[2], POINT_COLS[i], 2) = 1

\* the texts of the recommendations a result of analyze() holds
TextsOf(result) ==
    Eager([j \in 1..Len(result.recommendations) |-> RecText(result.recommendations[j])])

\* C20: recommendations survive the row encoding: for every analysed
\* article, the recommendation items of its card (the row's recommendations
\* string split on '|', trimmed, blanks dropped) are, item for item and in
\* order, the recommendations analyze() returned to add_article.
C20_RecommendationsSurvive ==
    /\ Len(rows) = Len(results)
    /\ \A i \in 1..Len(rows) : RecItems(rows[i]) = TextsOf(results[i])

\* a row whose items hold the filler-phrase recommendation, with its list of
\* phrases, and the message of a check that raised
C20_Witness ==
    /\ Len(rows) >= 1
    /\ faulty = {"headings"}
    /\ Len(RecItems(rows[1])) >= 3
    /\ \E j \in 1..Len(RecItems(rows[1])) :
           RecItems(rows[1])[j] = RecText(SyntheticRecommendation("headings"))
    /\ \E j \in 1..Len(RecItems(rows[1])) :
           /\ results[1].recommendations[j].found # <<>>
           /\ RecItems(rows[1])[j] = RecText(results[1].recommendations[j])

\* C17: when a check raises, _run_analysis_step surfaces it as a non-fatal
\* diagnostic under every warning filter: no exception leaves the step, the
\* check is recorded as failed with the synthetic recommendation, at most
\* one warning naming the check is shown (exactly one where every warning
\* is shown); a check that returns normally shows none.
C17_NonFatalDiagnostic ==
    [][\A name \in CallNames :
          /\ RunStep(name, TRUE) =>
                 /\ ~raised'
                 /\ points' = DictSet(points, name, FALSE)
                 /\ recommendations' = Append(recommendations, SyntheticRecommendation(name))
                 /\ Len(shown') <= Len(shown) + 1
                 /\ (warn_filter = "always" => shown' = Append(shown, name))
          /\ (RunStep(name, FALSE) /\ ~CheckRaises(Self, name)) =>
                 /\ ~raised'
                 /\ shown' = shown
      ]_vars

\* str(v) of a ctx value as the test of fill_template expects it in the
\* output: the text, the decimal digits, nothing for None
Coerced(v) ==
    IF v.type = "str" THEN v.text
    ELSE IF v.type = "int" THEN Decimal(v.n)
    ELSE <<>>

\* the entries with their values coerced to text
CoercedCtx(entries) ==
    Eager([i \in 1..Len(entries) |-> KV(entries[i].key, StrValue(Coerced(entries[i].value)))])

\* C18: fill_template(template, ctx) replaces the placeholders with the
\* string form of the ctx values, coercing a non-string value to text (10
\* becomes '10', None the empty string) instead of raising.
C18_Coerces ==
    (filled # None \/ raised) =>
        /\ ~raised
        /\ filled = fill_template(template, CoercedCtx(ctx)).text

\* the template read once from position i: a placeholder of a ctx key that
\* starts there becomes the key's value, any other character stays
RECURSIVE SinglePassFrom(_, _, _)
SinglePassFrom(text, entries, i) ==
    IF i > Len(text) THEN <<>>
    ELSE LET at == {k \in 1..Len(entries) : StartsAt(text, i, Placeholder(entries[k].key))}
         IN  IF at = {} THEN <<text[i]>> \o SinglePassFrom(text, entries, i + 1)
             ELSE LET k == CHOOSE k \in at : TRUE
                  IN  entries[k].value.text
                      \o SinglePassFrom(text, entries, i + Len(Placeholder(entries[k].key)))

\* the entries in the opposite iteration order
Reversed(entries) == Eager([i \in 1..Len(entries) |-> entries[Len(entries) + 1 - i]])

\* C19: template substitution is single-pass with respect to content: what
\* fill_template returns is the original template with each {{K}}
\* occurrence replaced by ctx[K], placeholder-like text inside a substituted
\* value left verbatim, and it is what the call returns with the ctx
\* iterated in the opposite order.
C19_SinglePass ==
    filled # None =>
        /\ filled = SinglePassFrom(template, ctx, 1)
        /\ filled = fill_template(template, Reversed(ctx)).text

\* C21: each do_report call reports exactly its own batch: on any sequence
\* of do_report calls on one Reporter, every file a call writes holds one
\* row per post passed to that call, the rows of those posts in order, and
\* no row carried over from an earlier call.
C21_OwnBatch ==
    [][report_args'.op = "do_report" /\ reports' = reports + 1 =>
          \A i \in (Len(exports) + 1)..Len(exports') :
              /\ Len(exports'[i].rows) = Len(report_args'.posts)
              /\ exports'[i].rows = RowsOfSound(report_args'.posts)
      ]_vars

=========================================================================
